---------------------------- MODULE Spec2Model ----------------------------
(***************************************************************************)
(* A model of fetch_data.py: the dashboard driver (__main__), the report   *)
(* builder (create_dashboard) and the quote fetcher (get_stock_data).      *)
(*                                                                         *)
(* Spec       the driver: one-shot build and write, the prompt, the        *)
(*            repeating loop, interrupts and fetch failures.               *)
(* SpecQuote  get_stock_data's current_data and the card rendered from it, *)
(*            for every snapshot mapping of a bounded family.              *)
(* SpecMA     the MA20 and MA50 columns, for every series of a bounded     *)
(*            family.                                                      *)
(***************************************************************************)
EXTENDS Integers, Sequences, FiniteSets, TLC

\* ------------------------------------------------------------------ bounds
MaxTickers == 3   \* longest ticker list create_dashboard is called with
MaxCycles == 2    \* cycles of the repeating loop that are explored

\* The symbols of the hard-coded list (line 266).
Symbols == {"AAPL", "GOOGL", "TSLA"}

VARIABLES
    tickers,         \* the list passed to create_dashboard (line 266)
    pc,              \* position of __main__
    cycle,           \* cycles of the while loop started so far
    builds,          \* calls of create_dashboard so far (the clock of the footer)
    bpc,             \* position inside create_dashboard
    i,               \* index of the loop variable `ticker` in tickers
    sub,             \* position inside get_stock_data: "hist" | "info"
    html,            \* the local `html` of create_dashboard
    dashboard_html,  \* the variable `dashboard_html` of __main__
    nHist,           \* stock.history calls per list position, this build
    nInfo,           \* stock.info accesses per list position, this build
    failedAt,        \* list position whose fetch raised in this build, or 0
    file,            \* what a reader of dashboard.html observes
    cut,             \* an interrupt arrived while dashboard.html was open
    uncaught,        \* the exception that ended the process, or "none"
    interruptedAt,   \* pc at which Ctrl+C arrived, or "none"
    info,            \* stock.info: the snapshot mapping of the provider
    current_data,    \* the dict built by get_stock_data (lines 26-35)
    card,            \* the fields of the card rendered from current_data
    qpc,             \* position of the quote pipeline
    hist,            \* the DataFrame `hist`, column by column
    mpc              \* position of the moving-average pipeline

vars == <<tickers, pc, cycle, builds, bpc, i, sub, html, dashboard_html,
          nHist, nInfo, failedAt, file, cut, uncaught, interruptedAt,
          info, current_data, card, qpc, hist, mpc>>

driverVars == <<tickers, pc, cycle, builds, bpc, i, sub, html, dashboard_html,
                nHist, nInfo, failedAt, file, cut, uncaught, interruptedAt>>
quoteVars == <<info, current_data, card, qpc>>
maVars == <<hist, mpc>>

buildVars == <<bpc, i, sub, html, nHist, nInfo, failedAt>>

\* ------------------------------------------------------------ the document
\* dashboard.html: whether it exists, and the blocks a reader finds in it.
Absent == [exists |-> FALSE, content |-> <<>>]
FileWith(c) == [exists |-> TRUE, content |-> c]
NoReport == <<>>            \* dashboard_html before the first assignment

\* The static head of the document (lines 44-136).
Header == [kind |-> "header"]
\* The card of one ticker (lines 156-177), built from the data of build g.
Card(t, g) == [kind |-> "card", ticker |-> t, gen |-> g]
\* The closing of the cards grid (lines 179-181).
CardsEnd == [kind |-> "cards_end"]
\* The chart block of one ticker (lines 237-243).
Chart(t, g) == [kind |-> "chart", ticker |-> t, gen |-> g]
\* The footer with the generation time (lines 246-254).
Footer(g) == [kind |-> "footer", time |-> g]

\* `html += block`
AppendBlock_Prepend(h, b) == <<b>> \o h
AppendBlock(h, b) == Append(h, b)

N == Len(tickers)

\* The document create_dashboard(ts) returns in build g when every fetch
\* succeeds: head, one card per ticker, the end of the grid, one chart per
\* ticker, the footer (lines 44-256).
Report(ts, g) ==
    <<Header>> \o [k \in 1..Len(ts) |-> Card(ts[k], g)] \o <<CardsEnd>>
               \o [k \in 1..Len(ts) |-> Chart(ts[k], g)] \o <<Footer(g)>>

IsPrefix(p, s) == Len(p) <= Len(s) /\ SubSeq(s, 1, Len(p)) = p

\* -------------------------------------------------------------- the driver
BuildPcs == {"once_build", "loop_build"}
OpenPcs == {"once_open", "loop_open"}
WritePcs == {"once_write", "loop_write"}

\* The statements the try block of lines 284-291 covers.
InTry_SleepOnly(p) == p = "sleep"
InTry(p) == p \in {"loop_build", "loop_open", "loop_write", "sleep"}

\* The statement that follows a write (line 273 -> 282, line 289 -> 291).
AfterWrite(p) == IF p = "once_write" THEN "prompt" ELSE "sleep"
\* The statement that follows a build (line 269 -> 272, line 287 -> 288).
AfterBuild(p) == IF p = "once_build" THEN "once_open" ELSE "loop_open"

\* An empty mapping (a dict with no key, a DataFrame with no column).
Empty == [x \in {} |-> 0]

\* The quote and moving-average pipelines at rest.
QuoteIdle == info = Empty /\ current_data = Empty /\ card = Empty /\ qpc = "idle"
MAIdle == hist = Empty /\ mpc = "idle"

Init ==
    /\ QuoteIdle /\ MAIdle
    /\ tickers \in UNION {[1..n -> Symbols] : n \in 0..MaxTickers}
    /\ pc = "once_build"
    /\ cycle = 0
    /\ builds = 0
    /\ bpc = "idle"
    /\ i = 0
    /\ sub = "hist"
    /\ html = <<>>
    /\ dashboard_html = NoReport
    /\ nHist = [k \in 1..Len(tickers) |-> 0]
    /\ nInfo = [k \in 1..Len(tickers) |-> 0]
    /\ failedAt = 0
    /\ file = Absent
    /\ cut = FALSE
    /\ uncaught = "none"
    /\ interruptedAt = "none"

\* create_dashboard is entered: html = head of the document (lines 44-136).
BuildBegin_OpenFirst ==
    /\ pc \in BuildPcs /\ bpc \in {"idle", "returned"}
    /\ builds' = builds + 1
    /\ bpc' = "cards"
    /\ i' = 1
    /\ sub' = "hist"
    /\ html' = <<Header>>
    /\ nHist' = [k \in 1..N |-> 0]
    /\ nInfo' = [k \in 1..N |-> 0]
    /\ failedAt' = 0
    /\ file' = FileWith(<<>>)
    /\ UNCHANGED <<tickers, pc, cycle, dashboard_html, cut, uncaught,
                   interruptedAt>>
    /\ UNCHANGED <<quoteVars, maVars>>
BuildBegin ==
    /\ pc \in BuildPcs /\ bpc \in {"idle", "returned"}
    /\ builds' = builds + 1
    /\ bpc' = "cards"
    /\ i' = 1
    /\ sub' = "hist"
    /\ html' = <<Header>>
    /\ nHist' = [k \in 1..N |-> 0]
    /\ nInfo' = [k \in 1..N |-> 0]
    /\ failedAt' = 0
    /\ UNCHANGED <<tickers, pc, cycle, dashboard_html, file, cut, uncaught,
                   interruptedAt>>
    /\ UNCHANGED <<quoteVars, maVars>>

\* get_stock_data, line 17: stock.history(period) returns.
FetchHistory_Retry ==
    /\ pc \in BuildPcs /\ bpc \in {"cards", "charts"} /\ i <= N /\ sub = "hist"
    /\ nHist' = [nHist EXCEPT ![i] = @ + 2]
    /\ sub' = "info"
    /\ UNCHANGED <<tickers, pc, cycle, builds, bpc, i, html, dashboard_html,
                   nInfo, failedAt, file, cut, uncaught, interruptedAt>>
    /\ UNCHANGED <<quoteVars, maVars>>
FetchHistory ==
    /\ pc \in BuildPcs /\ bpc \in {"cards", "charts"} /\ i <= N /\ sub = "hist"
    /\ nHist' = [nHist EXCEPT ![i] = @ + 1]
    /\ sub' = "info"
    /\ UNCHANGED <<tickers, pc, cycle, builds, bpc, i, html, dashboard_html,
                   nInfo, failedAt, file, cut, uncaught, interruptedAt>>
    /\ UNCHANGED <<quoteVars, maVars>>

\* get_stock_data, line 24: stock.info returns; the loop body then appends
\* the card (lines 142-177) or the chart (lines 188-243) of the ticker.
FetchInfo ==
    /\ pc \in BuildPcs /\ bpc \in {"cards", "charts"} /\ i <= N /\ sub = "info"
    /\ nInfo' = [nInfo EXCEPT ![i] = @ + 1]
    /\ html' = AppendBlock(html, IF bpc = "cards" THEN Card(tickers[i], builds)
                                 ELSE Chart(tickers[i], builds))
    /\ i' = i + 1
    /\ sub' = "hist"
    /\ UNCHANGED <<tickers, pc, cycle, builds, bpc, dashboard_html, nHist,
                   failedAt, file, cut, uncaught, interruptedAt>>
    /\ UNCHANGED <<quoteVars, maVars>>

\* A call of the market-data collaborator raises (line 17 or line 24). No
\* statement of create_dashboard catches it, and the only handler of
\* __main__ (line 292) is for KeyboardInterrupt: the process ends.
FetchFails_Skip ==
    /\ pc \in BuildPcs /\ bpc \in {"cards", "charts"} /\ i <= N
    /\ failedAt' = i
    /\ i' = i + 1
    /\ sub' = "hist"
    /\ nHist' = IF sub = "hist" THEN [nHist EXCEPT ![i] = @ + 1] ELSE nHist
    /\ nInfo' = IF sub = "info" THEN [nInfo EXCEPT ![i] = @ + 1] ELSE nInfo
    /\ UNCHANGED <<tickers, pc, cycle, builds, bpc, html, dashboard_html,
                   file, cut, uncaught, interruptedAt>>
    /\ UNCHANGED <<quoteVars, maVars>>
FetchFails ==
    /\ pc \in BuildPcs /\ bpc \in {"cards", "charts"} /\ i <= N
    /\ failedAt' = i
    /\ nHist' = IF sub = "hist" THEN [nHist EXCEPT ![i] = @ + 1] ELSE nHist
    /\ nInfo' = IF sub = "info" THEN [nInfo EXCEPT ![i] = @ + 1] ELSE nInfo
    /\ bpc' = "raised"
    /\ pc' = "crashed"
    /\ uncaught' = "FetchError"
    /\ UNCHANGED <<tickers, cycle, builds, i, sub, html, dashboard_html,
                   file, cut, interruptedAt>>
    /\ UNCHANGED <<quoteVars, maVars>>

\* The cards loop is exhausted: the grid is closed (lines 179-181) and the
\* charts loop starts (line 184).
CloseCards ==
    /\ pc \in BuildPcs /\ bpc = "cards" /\ i > N
    /\ html' = AppendBlock(html, CardsEnd)
    /\ bpc' = "charts"
    /\ i' = 1
    /\ UNCHANGED <<tickers, pc, cycle, builds, sub, dashboard_html, nHist,
                   nInfo, failedAt, file, cut, uncaught, interruptedAt>>
    /\ UNCHANGED <<quoteVars, maVars>>

\* The charts loop is exhausted: the footer is appended (lines 246-254),
\* html is returned (line 256) and assigned to dashboard_html (269, 287).
BuildReturn ==
    /\ pc \in BuildPcs /\ bpc = "charts" /\ i > N
    /\ dashboard_html' = AppendBlock(html, Footer(builds))
    /\ html' = <<>>
    /\ bpc' = "returned"
    /\ pc' = AfterBuild(pc)
    /\ UNCHANGED <<tickers, cycle, builds, i, sub, nHist, nInfo, failedAt,
                   file, cut, uncaught, interruptedAt>>
    /\ UNCHANGED <<quoteVars, maVars>>

\* open('dashboard.html', 'w') (lines 272, 288): the file is created or
\* truncated to length zero.
OpenFile_NoTruncate ==
    /\ pc \in OpenPcs
    /\ file' = FileWith(file.content)
    /\ pc' = IF pc = "once_open" THEN "once_write" ELSE "loop_write"
    /\ UNCHANGED <<tickers, cycle, builds, buildVars, dashboard_html, cut,
                   uncaught, interruptedAt>>
    /\ UNCHANGED <<quoteVars, maVars>>
OpenFile ==
    /\ pc \in OpenPcs
    /\ file' = FileWith(<<>>)
    /\ pc' = IF pc = "once_open" THEN "once_write" ELSE "loop_write"
    /\ UNCHANGED <<tickers, cycle, builds, buildVars, dashboard_html, cut,
                   uncaught, interruptedAt>>
    /\ UNCHANGED <<quoteVars, maVars>>

\* f.write(dashboard_html) and the close of the with block (lines 273, 289):
\* the bytes reach the file in pieces; the statement is left once all of
\* them are there and the file is closed.
WriteFile ==
    /\ pc \in WritePcs
    /\ \E n \in (Len(file.content) + 1)..Len(dashboard_html) :
          /\ file' = FileWith(SubSeq(dashboard_html, 1, n))
          /\ pc' = IF n = Len(dashboard_html) THEN AfterWrite(pc) ELSE pc
    /\ UNCHANGED <<tickers, cycle, builds, buildVars, dashboard_html, cut,
                   uncaught, interruptedAt>>
    /\ UNCHANGED <<quoteVars, maVars>>

\* input() returns (line 282): the try block and the while loop are entered.
Enter ==
    /\ pc = "prompt"
    /\ cycle < MaxCycles
    /\ pc' = "loop_build"
    /\ cycle' = cycle + 1
    /\ UNCHANGED <<tickers, builds, buildVars, dashboard_html, file, cut,
                   uncaught, interruptedAt>>
    /\ UNCHANGED <<quoteVars, maVars>>

\* time.sleep(30) returns (line 291): the next iteration starts.
Wake ==
    /\ pc = "sleep"
    /\ cycle < MaxCycles
    /\ pc' = "loop_build"
    /\ cycle' = cycle + 1
    /\ UNCHANGED <<tickers, builds, buildVars, dashboard_html, file, cut,
                   uncaught, interruptedAt>>
    /\ UNCHANGED <<quoteVars, maVars>>

\* Ctrl+C: KeyboardInterrupt is raised at the statement being executed.
\* Inside the try block it is caught (lines 292-293); elsewhere it is not.
\* An open file is closed by its with block on the way out, which flushes
\* the bytes buffered so far, whichever they are.
Interrupt ==
    /\ pc \notin {"stopped", "crashed"}
    /\ interruptedAt' = pc
    /\ pc' = IF InTry(pc) THEN "stopped" ELSE "crashed"
    /\ uncaught' = IF InTry(pc) THEN "none" ELSE "KeyboardInterrupt"
    /\ bpc' = IF pc \in BuildPcs THEN "raised" ELSE bpc
    /\ IF pc \in WritePcs
         THEN /\ cut' = TRUE
              /\ \E n \in Len(file.content)..Len(dashboard_html) :
                    file' = FileWith(SubSeq(dashboard_html, 1, n))
         ELSE UNCHANGED <<file, cut>>
    /\ UNCHANGED <<tickers, cycle, builds, i, sub, html, dashboard_html,
                   nHist, nInfo, failedAt>>
    /\ UNCHANGED <<quoteVars, maVars>>

Next ==
    \/ BuildBegin
    \/ FetchHistory
    \/ FetchInfo
    \/ FetchFails
    \/ CloseCards
    \/ BuildReturn
    \/ OpenFile
    \/ WriteFile
    \/ Enter
    \/ Wake
    \/ Interrupt

Spec == Init /\ [][Next]_vars


\* ------------------------------------------------- the quote and its card
\* Numbers. A price, a change, a percentage or a ratio is held in
\* hundredths (15025 is 150.25); the volume is a count; the market
\* capitalisation, which passes 2^31, is held as hi * 10^6 + lo.
Big(h, l) == [hi |-> h, lo |-> l]

\* The literal 0 of the defaults (lines 27-34), as a number of the key's kind.
Zero(k) == IF k = "marketCap" THEN Big(0, 0) ELSE 0

\* dict.get(key, default)
Get(d, k, default) == IF k \in DOMAIN d THEN d[k] ELSE default

\* current_data of get_stock_data (lines 26-35).
CurrentData_RegularPriceFirst(d) ==
    [price      |-> Get(d, "regularMarketPrice", Get(d, "currentPrice", 0)),
     change     |-> Get(d, "regularMarketChange", 0),
     change_pct |-> Get(d, "regularMarketChangePercent", 0),
     volume     |-> Get(d, "volume", 0),
     market_cap |-> Get(d, "marketCap", Zero("marketCap")),
     pe_ratio   |-> Get(d, "trailingPE", 0),
     day_high   |-> Get(d, "dayHigh", 0),
     day_low    |-> Get(d, "dayLow", 0)]
CurrentData(d) ==
    [price      |-> Get(d, "currentPrice", Get(d, "regularMarketPrice", 0)),
     change     |-> Get(d, "regularMarketChange", 0),
     change_pct |-> Get(d, "regularMarketChangePercent", 0),
     volume     |-> Get(d, "volume", 0),
     market_cap |-> Get(d, "marketCap", Zero("marketCap")),
     pe_ratio   |-> Get(d, "trailingPE", 0),
     day_high   |-> Get(d, "dayHigh", 0),
     day_low    |-> Get(d, "dayLow", 0)]

\* change_class and change_sign (lines 142-143).
ChangeClass_ByPercent(cur) ==
    IF cur.change_pct >= 0 THEN "positive" ELSE "negative"
ChangeClass(cur) == IF cur.change >= 0 THEN "positive" ELSE "negative"
ChangeSign(cur) == IF cur.change >= 0 THEN "+" ELSE ""

\* Two digits, three digits, with leading zeros.
Pad2(n) == IF n < 10 THEN "0" \o ToString(n) ELSE ToString(n)
Pad3(n) == IF n < 10 THEN "00" \o ToString(n)
           ELSE IF n < 100 THEN "0" \o ToString(n) ELSE ToString(n)

\* f"{x:.2f}" of a number held in hundredths.
Fixed2(x) ==
    LET a == IF x < 0 THEN 0 - x ELSE x
    IN  (IF x < 0 THEN "-" ELSE "") \o ToString(a \div 100) \o "."
            \o Pad2(a % 100)

\* f"{n:,}" and f"{n:,.0f}" of a non-negative integer.
RECURSIVE Grouped(_)
Grouped(n) == IF n < 1000 THEN ToString(n)
              ELSE Grouped(n \div 1000) \o "," \o Pad3(n % 1000)

\* num >= 1e12, num >= 1e9, num >= 1e6 (lines 147, 149, 151).
AtLeast1e12_Strict(num) ==
    num.hi > 1000000 \/ (num.hi = 1000000 /\ num.lo > 0)
AtLeast1e12(num) == num.hi >= 1000000
AtLeast1e9(num) == num.hi >= 1000
AtLeast1e6(num) == num.hi >= 1

\* num/1e12, num/1e9, num/1e6 rounded to two decimals, in hundredths
\* (lines 148, 150, 152); the inputs explored lie on no rounding tie.
Over1e12(num) ==
    (num.hi \div 10000) + (IF num.hi % 10000 >= 5000 THEN 1 ELSE 0)
Over1e9(num) == (num.hi \div 10) + (IF num.hi % 10 >= 5 THEN 1 ELSE 0)
Over1e6(num) ==
    num.hi * 100 + (num.lo \div 10000)
        + (IF num.lo % 10000 >= 5000 THEN 1 ELSE 0)

\* format_number (lines 146-154).
format_number(num) ==
    IF AtLeast1e12(num) THEN "$" \o Fixed2(Over1e12(num)) \o "T"
    ELSE IF AtLeast1e9(num) THEN "$" \o Fixed2(Over1e9(num)) \o "B"
    ELSE IF AtLeast1e6(num) THEN "$" \o Fixed2(Over1e6(num)) \o "M"
    ELSE "$" \o Grouped(num.lo)

\* The fields of the card that depend on current (lines 156-177).
RenderCard(cur) ==
    [change_class |-> ChangeClass(cur),
     price        |-> "$" \o Fixed2(cur.price),
     change       |-> ChangeSign(cur) \o "$" \o Fixed2(cur.change) \o " ("
                        \o ChangeSign(cur) \o Fixed2(cur.change_pct) \o "%)",
     volume       |-> Grouped(cur.volume),
     market_cap   |-> format_number(cur.market_cap),
     day_range    |-> "$" \o Fixed2(cur.day_low) \o " - $"
                        \o Fixed2(cur.day_high),
     pe_ratio     |-> Fixed2(cur.pe_ratio)]

\* Market capitalisations the provider may report: the values of the
\* documented examples and the values on and next to each threshold.
Caps == {Big(0, 0), Big(0, 999), Big(0, 750000), Big(0, 999999),
         Big(1, 0), Big(1, 234567), Big(999, 994999), Big(999, 999999),
         Big(1000, 0), Big(3400, 0), Big(999999, 999999),
         Big(1000000, 0), Big(1000000, 1), Big(2500000, 0)}

\* The values the provider may report for a key.
Vals(k) ==
    CASE k = "currentPrice" -> {0, 15025}
      [] k = "regularMarketPrice" -> {14900}
      [] k = "regularMarketChange" -> {0 - 125, 0, 125}
      [] k = "regularMarketChangePercent" -> {0 - 1, 0, 83}
      [] k = "volume" -> {1234567}
      [] k = "marketCap" -> Caps
      [] k = "trailingPE" -> {2850}
      [] k = "dayHigh" -> {15100}
      [] k = "dayLow" -> {14850}

\* A key the provider omits, or reports with one of its values.
Entry(k) == {Empty} \cup {(k :> v) : v \in Vals(k)}

DriverIdle ==
    /\ tickers = <<>> /\ pc = "idle" /\ cycle = 0 /\ builds = 0
    /\ bpc = "idle" /\ i = 0 /\ sub = "hist" /\ html = <<>>
    /\ dashboard_html = NoReport /\ nHist = <<>> /\ nInfo = <<>>
    /\ failedAt = 0 /\ file = Absent /\ cut = FALSE /\ uncaught = "none"
    /\ interruptedAt = "none"

InitQuote ==
    /\ DriverIdle /\ MAIdle
    /\ \E a \in Entry("currentPrice"), b \in Entry("regularMarketPrice"),
          c \in Entry("regularMarketChange"),
          d \in Entry("regularMarketChangePercent"),
          e \in Entry("volume"), f \in Entry("marketCap"),
          g \in Entry("trailingPE"), h \in Entry("dayHigh"),
          j \in Entry("dayLow") :
            info = a @@ b @@ c @@ d @@ e @@ f @@ g @@ h @@ j
    /\ current_data = Empty
    /\ card = Empty
    /\ qpc = "fetch"

\* get_stock_data builds current_data from stock.info (lines 24-37).
GetStockData ==
    /\ qpc = "fetch"
    /\ current_data' = CurrentData(info)
    /\ qpc' = "render"
    /\ UNCHANGED <<info, card, driverVars, maVars>>

\* The loop body of create_dashboard renders the card (lines 142-177).
RenderOneCard ==
    /\ qpc = "render"
    /\ card' = RenderCard(current_data)
    /\ qpc' = "done"
    /\ UNCHANGED <<info, current_data, driverVars, maVars>>

NextQuote ==
    \/ GetStockData
    \/ RenderOneCard

SpecQuote == InitQuote /\ [][NextQuote]_vars

\* ---------------------------------------------------- the moving averages
MaxBars == 64            \* longest price series explored
ShortWindow == 20        \* rolling(window=20), line 20
LongWindow == 50         \* rolling(window=50), line 21

\* An entry of a rolling mean: no value (NaN), or the quotient num / den.
NaN == [nan |-> TRUE]
Mean(s, n) == [nan |-> FALSE, num |-> s, den |-> n]

\* Series.rolling(window, min_periods).mean() by its sliding accumulator:
\* the window ending at position k keeps the sum of its observations,
\* adding close[k] and removing the observation that leaves the window;
\* the entry is the sum over the count once the count reaches min_periods.
RECURSIVE RollSum(_, _, _)
RollSum(close, window, k) ==
    IF k = 0 THEN 0
    ELSE RollSum(close, window, k - 1) + close[k]
            - (IF k > window THEN close[k - window] ELSE 0)

RollCount(window, k) == IF k < window THEN k ELSE window

RollingMean(close, window, minp) ==
    [k \in 1..Len(close) |->
        IF RollCount(window, k) >= minp
        THEN Mean(RollSum(close, window, k), RollCount(window, k))
        ELSE NaN]

\* hist['Close'].rolling(window=w).mean(): min_periods defaults to w.
Rolling_MinPeriodsOne(close, w) == RollingMean(close, w, 1)
Rolling(close, w) == RollingMean(close, w, w)

\* The closes of a series of n bars, in hundredths: a base price moved by a
\* periodic pattern of the given step, stride and period.
Closes(n, step, stride, period) ==
    [k \in 1..n |-> 10000 + step * ((k * stride) % period)]

InitMA ==
    /\ DriverIdle /\ QuoteIdle
    /\ \E n \in 0..MaxBars, step \in {0, 25, 110}, stride \in {1, 3},
          period \in {5, 8, 64} :
            hist = ("Close" :> Closes(n, step, stride, period))
    /\ mpc = "ma20"

\* hist['MA20'] = hist['Close'].rolling(window=20).mean()   (line 20)
AddMA20 ==
    /\ mpc = "ma20"
    /\ hist' = hist @@ ("MA20" :> Rolling(hist["Close"], ShortWindow))
    /\ mpc' = "ma50"
    /\ UNCHANGED <<driverVars, quoteVars>>

\* hist['MA50'] = hist['Close'].rolling(window=50).mean()   (line 21)
AddMA50 ==
    /\ mpc = "ma50"
    /\ hist' = hist @@ ("MA50" :> Rolling(hist["Close"], LongWindow))
    /\ mpc' = "done"
    /\ UNCHANGED <<driverVars, quoteVars>>

NextMA ==
    \/ AddMA20
    \/ AddMA50

SpecMA == InitMA /\ [][NextMA]_vars

\* ========================================================== claims, driver

C2_AsClaimed ==
    \/ file = Absent
    \/ \E g \in 1..builds : file = FileWith(Report(tickers, g))

\* C2 amended: the file is overwritten in place. While a write is in
\* progress, or after an interrupt arrived during one, the reader sees a
\* prefix of the new report, empty or truncated or whole; at any other time
\* the file is absent or one complete report.
C2_PrefixOfOneReport ==
    \/ file = Absent
    \/ /\ pc \in WritePcs \/ cut
       /\ file.exists /\ IsPrefix(file.content, dashboard_html)
       /\ dashboard_html = Report(tickers, builds)
    \/ /\ pc \notin WritePcs /\ ~cut
       /\ \E g \in 1..builds : file = FileWith(Report(tickers, g))

C2_Witness ==
    /\ cut /\ pc = "stopped"
    /\ Len(file.content) > 0 /\ Len(file.content) < Len(dashboard_html)

\* C3: an interrupt that arrives in the repeating mode (build, open, write
\* or sleep of a cycle) is caught: the process stops normally, and from
\* then on no cycle starts, no build starts and the file is not written.
C3_InterruptStopsLoop ==
    /\ [](interruptedAt \in {"loop_build", "loop_open", "loop_write", "sleep"}
            => pc = "stopped" /\ uncaught = "none")
    /\ [][(interruptedAt # "none") =>
            (file' = file /\ cycle' = cycle /\ builds' = builds)]_vars

C3_Witness ==
    /\ interruptedAt = "loop_write" /\ pc = "stopped" /\ cycle = MaxCycles

\* C4 as stated: one getHistory and one getSnapshot per ticker and build.
C4_AsClaimed ==
    bpc = "returned" => \A k \in 1..N : nHist[k] = 1 /\ nInfo[k] = 1

\* C4 amended: get_stock_data is invoked twice per element of tickers,
\* once by the cards loop and once by the charts loop, each invocation
\* making one getHistory call followed by one getSnapshot call: a build
\* that returns has made two of each per ticker.
C4_TwicePerTicker ==
    /\ bpc = "returned" => \A k \in 1..N : nHist[k] = 2 /\ nInfo[k] = 2
    /\ \A k \in 1..N : nInfo[k] <= nHist[k] /\ nHist[k] <= nInfo[k] + 1
                        /\ nHist[k] <= 2

C4_Witness ==
    /\ bpc = "returned" /\ N >= 2 /\ nHist[N] = 2 /\ nInfo[N] = 2

\* C5: the report of a build whose fetches all succeed holds one card and
\* one chart per element of tickers, cards before charts, each in the order
\* of tickers; while it is built, tickers are treated one at a time in
\* that order.
C5_OneEntryPerTickerInOrder ==
    /\ bpc = "returned" => dashboard_html = Report(tickers, builds)
    /\ (bpc \in {"cards", "charts"} /\ i <= N) =>
          /\ IsPrefix(html, Report(tickers, builds))
          /\ Len(html) = IF bpc = "cards" THEN i ELSE N + 1 + i

C5_Witness ==
    /\ bpc = "returned" /\ N >= 3
    /\ tickers[1] # tickers[2] /\ tickers[2] # tickers[3]
    /\ tickers[1] # tickers[3]
    /\ dashboard_html[2] = Card(tickers[1], builds)

\* C10: no step taken while create_dashboard runs (a fetch, a failure, an
\* interrupt) changes dashboard.html, nor does an interrupt that arrives
\* after the build and before the open: the file is opened only once the
\* whole report has been built.
C10_BuildLeavesFile ==
    [][/\ (pc \in BuildPcs) => (file' = file)
       /\ (pc \in OpenPcs /\ pc' \notin WritePcs) => (file' = file)]_vars

C10_Witness ==
    /\ pc = "crashed" /\ failedAt # 0 /\ cycle >= 1
    /\ file = FileWith(Report(tickers, builds - 1))


\* =========================================================== claims, quote

\* C6: the class and the sign glyph of the change field follow the sign of
\* change alone: change >= 0 gives "positive" and "+", change < 0 gives
\* "negative" and no glyph, whatever change_pct is; a change of 0 with a
\* percentage of -0.01 is a gain and is rendered with "+".
C6_SignFollowsChange ==
    qpc = "done" =>
        LET ch == current_data.change
            sign == IF ch >= 0 THEN "+" ELSE ""
        IN  /\ card.change_class = IF ch >= 0 THEN "positive" ELSE "negative"
            /\ card.change = sign \o "$" \o Fixed2(ch) \o " (" \o sign
                                \o Fixed2(current_data.change_pct) \o "%)"
            /\ (ch = 0 /\ current_data.change_pct = 0 - 1) =>
                  /\ card.change_class = "positive"
                  /\ card.change = "+$0.00 (+-0.01%)"

C6_Witness ==
    /\ qpc = "done"
    /\ current_data.change = 0 /\ current_data.change_pct = 0 - 1
    /\ "regularMarketChange" \in DOMAIN info
    /\ card.change_class = "positive"

\* The field of current_data and the key of stock.info it is read from.
FieldKey ==
    [change |-> "regularMarketChange",
     change_pct |-> "regularMarketChangePercent", volume |-> "volume",
     market_cap |-> "marketCap", pe_ratio |-> "trailingPE",
     day_high |-> "dayHigh", day_low |-> "dayLow"]

\* C7: get_stock_data returns for each field the provider's value when the
\* key is present and zero when it is omitted, and never fails; price is
\* currentPrice when present, else regularMarketPrice when present, else 0.
C7_MissingFieldsDefaultToZero ==
    qpc # "fetch" =>
        /\ DOMAIN current_data = DOMAIN FieldKey \cup {"price"}
        /\ \A f \in DOMAIN FieldKey :
              current_data[f] = IF FieldKey[f] \in DOMAIN info
                                THEN info[FieldKey[f]] ELSE Zero(FieldKey[f])
        /\ current_data.price =
              IF "currentPrice" \in DOMAIN info THEN info["currentPrice"]
              ELSE IF "regularMarketPrice" \in DOMAIN info
                   THEN info["regularMarketPrice"] ELSE 0

C7_Witness ==
    /\ qpc = "render"
    /\ "currentPrice" \notin DOMAIN info
    /\ "regularMarketPrice" \in DOMAIN info
    /\ "marketCap" \notin DOMAIN info /\ "volume" \in DOMAIN info
    /\ current_data.price = 14900 /\ current_data.market_cap = Big(0, 0)

\* C9: format_number picks the suffix by inclusive lower thresholds: T from
\* 1e12, B from 1e9 up to 1e12, M from 1e6 up to 1e9, and below 1e6 the
\* comma-grouped integer with no suffix.
C9_FormatNumberThresholds ==
    qpc = "done" =>
        LET num == current_data.market_cap
            s == card.market_cap
        IN  /\ num.hi >= 1000000 => s = "$" \o Fixed2(Over1e12(num)) \o "T"
            /\ (num.hi >= 1000 /\ num.hi < 1000000) =>
                  s = "$" \o Fixed2(Over1e9(num)) \o "B"
            /\ (num.hi >= 1 /\ num.hi < 1000) =>
                  s = "$" \o Fixed2(Over1e6(num)) \o "M"
            /\ num.hi = 0 => s = "$" \o Grouped(num.lo)
            /\ num = Big(2500000, 0) => s = "$2.50T"
            /\ num = Big(3400, 0) => s = "$3.40B"
            /\ num = Big(0, 750000) => s = "$750,000"
            /\ num = Big(0, 999) => s = "$999"
            /\ num = Big(0, 0) => s = "$0"
            /\ num = Big(1000000, 0) => s = "$1.00T"
            /\ num = Big(1000, 0) => s = "$1.00B"
            /\ num = Big(1, 0) => s = "$1.00M"
            /\ num = Big(0, 999999) => s = "$999,999"

C9_Witness ==
    /\ qpc = "done" /\ "marketCap" \in DOMAIN info
    /\ current_data.market_cap = Big(1000000, 0)
    /\ card.market_cap = "$1.00T"

\* ================================================= claims, moving averages

\* The sum of close over the positions a..b, term by term.
RECURSIVE SumOver(_, _, _)
SumOver(close, a, b) ==
    IF a > b THEN 0 ELSE close[b] + SumOver(close, a, b - 1)

\* A column is aligned with the series, has no value at its first w - 1
\* positions, and from position w on holds the mean of the w closes that
\* end at the position.
IsTrailingMean(col, close, w) ==
    /\ Len(col) = Len(close)
    /\ \A k \in 1..Len(close) :
          IF k < w THEN col[k] = NaN
          ELSE col[k] = Mean(SumOver(close, k - w + 1, k), w)

\* C8: MA20 and MA50 are index-aligned with the series; MA20 has no value
\* at indices below 19 and the mean of close over [i-19, i] from index 19
\* on; MA50 likewise with 49.
C8_MovingAverages ==
    /\ mpc \in {"ma50", "done"} =>
          IsTrailingMean(hist["MA20"], hist["Close"], 20)
    /\ mpc = "done" => IsTrailingMean(hist["MA50"], hist["Close"], 50)

C8_Witness ==
    /\ mpc = "done" /\ Len(hist["Close"]) > 50
    /\ hist["MA20"][19] = NaN /\ hist["MA20"][20] # NaN
    /\ hist["MA50"][49] = NaN /\ hist["MA50"][50] # NaN
    /\ hist["MA50"][51].num # hist["MA50"][50].num

====
